---- MODULE Spec2Model ----
(***************************************************************************)
(* Tic-Tac-Toe engine in its three variants:                               *)
(*   "A"  NV_Project2_PartA.py   two humans                                *)
(*   "B"  NV_Project2_PartB.py   human X against minimax O                 *)
(*   "C"  NV_Project2_PartC.py   human X against a trained model O         *)
(* (specification Spec), and the minimax engine of Part B with X's moves   *)
(* typed by the human ("B") or, as in the self-play of spec section 4.3,   *)
(* obtained from minimax as well ("M") (specification SelfPlaySpec).       *)
(*                                                                         *)
(* One step of the model is one pass through the body of the `while True`  *)
(* loop of playGame (read a candidate move, validate, place, classify,     *)
(* switch) or one answer to the replay prompt.  Specification SearchSpec   *)
(* unfolds the search of Part B on boards with few empty cells into its    *)
(* calls and returns, which work on the engine's own board; stack holds    *)
(* the frames of getComputerMove and minimax while a search is running.    *)
(***************************************************************************)
EXTENDS Integers, Sequences, FiniteSets, TLC

VARIABLES variant, c, turn, pc, inp, msg, result, stack

vars == <<variant, c, turn, pc, inp, msg, result, stack>>

(***************************************************************************)
(* Bounds of the model (inputs the environment may supply).                *)
(***************************************************************************)
\* the human may type any row/column in -1..MaxCoord
MaxCoord == 3
\* the predictor may return any move index in -1..MaxIndex
MaxIndex == 9
\* the search is unfolded call by call on boards with at most this many
\* empty cells
MaxSearchCells == 6
\* outside the minimax variants, getComputerMove is evaluated as a pure
\* function on the reachable boards with at most this many empty cells
SmallSearch == 4

Coords == -1 .. MaxCoord
Predictions == -1 .. MaxIndex

(***************************************************************************)
(* Data                                                                    *)
(***************************************************************************)
Variants == {"A", "B", "C"}
MinimaxVariants == {"B", "M"}
Idx == 0 .. 2
Cell == {" ", "X", "O"}
Cells == Idx \X Idx

\* Board.__init__: self.c = [[" " for _ in range(3)] for _ in range(3)]
Board == [i \in Idx |-> [j \in Idx |-> " "]]

\* self.board.c[row][col] = mark
Place(b, row, col, mark) == [b EXCEPT ![row][col] = mark]

\* -float('inf') and float('inf'): below and above every score in {-1,0,1}
NegInf == -2
PosInf == 2

\* best_move = None
None == <<>>

\* mutant: the turn is never handed over
switchPlayer_Stuck(t) == t

switchPlayer(t) == IF t = "X" THEN "O" ELSE "X"

(***************************************************************************)
(* validateEntry                                                           *)
(***************************************************************************)
\* mutant: off by one on the lower bound of the row
validateEntryA_OffByOne(b, row, col) ==
    IF 0 < row /\ row < 3 /\ 0 <= col /\ col < 3
    THEN IF b[row][col] = " " THEN TRUE ELSE FALSE
    ELSE FALSE

validateEntryA(b, row, col) ==
    IF 0 <= row /\ row < 3 /\ 0 <= col /\ col < 3
    THEN IF b[row][col] = " " THEN TRUE ELSE FALSE
    ELSE FALSE

\* mutant: the cell is not tested for emptiness
validateEntryB_IgnoresOccupied(b, row, col) ==
    0 <= row /\ row < 3 /\ 0 <= col /\ col < 3

validateEntryB(b, row, col) ==
    0 <= row /\ row < 3 /\ 0 <= col /\ col < 3 /\ b[row][col] = " "

validateEntryC(b, row, col) ==
    0 <= row /\ row < 3 /\ 0 <= col /\ col < 3 /\ b[row][col] = " "

validateEntry(v, b, row, col) ==
    CASE v = "A" -> validateEntryA(b, row, col)
      [] v = "C" -> validateEntryC(b, row, col)
      [] OTHER   -> validateEntryB(b, row, col)

(***************************************************************************)
(* checkFull, checkWin, checkEnd                                           *)
(***************************************************************************)
checkFull(b) == \A row \in Idx : \A col \in Idx : b[row][col] # " "

checkWinA(b, t) ==
    \/ \E row \in Idx : \A col \in Idx : b[row][col] = t
    \/ \E col \in Idx : \A r \in Idx : b[r][col] = t
    \/ \A i \in Idx : b[i][i] = t
    \/ \A i \in Idx : b[i][2 - i] = t

checkWinB(b, t) ==
    \/ \E i \in Idx : \/ \A j \in Idx : b[i][j] = t
                      \/ \A j \in Idx : b[j][i] = t
    \/ \/ \A i \in Idx : b[i][i] = t
       \/ \A i \in Idx : b[i][2 - i] = t

\* mutant: the diagonals are not examined
checkWinC_NoDiagonals(b, t) ==
    \E i \in Idx : \/ \A j \in Idx : b[i][j] = t
                   \/ \A j \in Idx : b[j][i] = t

checkWinC(b, t) ==
    \/ \E i \in Idx : \/ \A j \in Idx : b[i][j] = t
                      \/ \A j \in Idx : b[j][i] = t
    \/ \/ \A i \in Idx : b[i][i] = t
       \/ \A i \in Idx : b[i][2 - i] = t

\* self.checkWin() of the running variant
checkWin(v, b, t) ==
    CASE v = "A" -> checkWinA(b, t)
      [] v = "C" -> checkWinC(b, t)
      [] OTHER   -> checkWinB(b, t)

checkEndB(b, t) == checkWinB(b, t) \/ checkFull(b)

\* mutant: the columns are not examined
checkWinState_NoColumns(board_state, player) ==
    \/ \E row \in Idx : \A col \in Idx : board_state[row][col] = player
    \/ \A i \in Idx : board_state[i][i] = player
    \/ \A i \in Idx : board_state[i][2 - i] = player

checkWinState(board_state, player) ==
    \/ \E row \in Idx : \A col \in Idx : board_state[row][col] = player
    \/ \E col \in Idx : \A r \in Idx : board_state[r][col] = player
    \/ \A i \in Idx : board_state[i][i] = player
    \/ \A i \in Idx : board_state[i][2 - i] = player

(***************************************************************************)
(* minimax (Part B).  `available` are the cells the two nested `for` loops *)
(* over range(3) find empty; the running max(best_score, score) started at *)
(* -inf (min, started at +inf) over them is the greatest (least) of the    *)
(* children's scores.  (scores is bound to its value once, before the      *)
(* extremum is taken.)                                                     *)
(***************************************************************************)
available(b) == {rc \in Cells : b[rc[1]][rc[2]] = " "}

\* the boards the loop body visits: one mark placed on an empty cell
Children(b, mark) == {Place(b, rc[1], rc[2], mark) : rc \in available(b)}

\* mutant: min for max in the maximizing branch
Max_Least(S) == CHOOSE m \in S : \A s \in S : m <= s

Max(S) == CHOOSE m \in S : \A s \in S : s <= m
Min(S) == CHOOSE m \in S : \A s \in S : m <= s

RECURSIVE minimax(_, _)

minimax(board_state, is_maximizing) ==
    IF checkWinState(board_state, "O") THEN 1
    ELSE IF checkWinState(board_state, "X") THEN -1
    ELSE IF \A row \in Idx : \A col \in Idx : board_state[row][col] # " " THEN 0
    ELSE IF is_maximizing
         THEN CHOOSE best_score \in
                  {Max(scores) :
                       scores \in {{NegInf} \cup
                                   {minimax(child, FALSE) :
                                        child \in Children(board_state, "O")}}} : TRUE
         ELSE CHOOSE best_score \in
                  {Min(scores) :
                       scores \in {{PosInf} \cup
                                   {minimax(child, TRUE) :
                                        child \in Children(board_state, "X")}}} : TRUE

(***************************************************************************)
(* getComputerMove (Part B).  scores holds, for every empty cell, the      *)
(* score the loop body computes for it; the loop then walks the cells in   *)
(* row-major order k = 3*i + j and keeps the first cell whose score is     *)
(* strictly greater than every score seen before it.  (scores is bound to  *)
(* its value once, before the walk.)                                       *)
(***************************************************************************)
Scores(b, mark, is_maximizing) ==
    UNION {{<<rc, minimax(child, is_maximizing)>> :
                child \in {Place(b, rc[1], rc[2], mark)}} :
           rc \in available(b)}

ScoreOf(scores, rc) == (CHOOSE p \in scores : p[1] = rc)[2]

RECURSIVE getComputerMoveLoop(_, _, _, _, _)

getComputerMoveLoop(b, scores, k, best_score, best_move) ==
    IF k = 9 THEN best_move
    ELSE LET i == k \div 3
             j == k % 3
         IN  IF b[i][j] = " "
             THEN LET score == ScoreOf(scores, <<i, j>>)
                  IN  IF score > best_score
                      THEN getComputerMoveLoop(b, scores, k + 1, score, <<i, j>>)
                      ELSE getComputerMoveLoop(b, scores, k + 1, best_score, best_move)
             ELSE getComputerMoveLoop(b, scores, k + 1, best_score, best_move)

\* mutant: the comparison is inverted, the lowest score wins
RECURSIVE getComputerMoveLoop_Worst(_, _, _, _, _)
getComputerMoveLoop_Worst(b, scores, k, best_score, best_move) ==
    IF k = 9 THEN best_move
    ELSE LET i == k \div 3
             j == k % 3
         IN  IF b[i][j] = " "
             THEN LET score == ScoreOf(scores, <<i, j>>)
                  IN  IF score < best_score
                      THEN getComputerMoveLoop_Worst(b, scores, k + 1, score, <<i, j>>)
                      ELSE getComputerMoveLoop_Worst(b, scores, k + 1, best_score, best_move)
             ELSE getComputerMoveLoop_Worst(b, scores, k + 1, best_score, best_move)

getComputerMove_Worst(b) ==
    CHOOSE best_move \in
        {getComputerMoveLoop_Worst(b, scores, 0, PosInf, None) :
             scores \in {Scores(b, "O", FALSE)}} : TRUE

\* mutant: `>=` for `>`, the last of the best cells wins
RECURSIVE getComputerMoveLoop_Last(_, _, _, _, _)
getComputerMoveLoop_Last(b, scores, k, best_score, best_move) ==
    IF k = 9 THEN best_move
    ELSE LET i == k \div 3
             j == k % 3
         IN  IF b[i][j] = " "
             THEN LET score == ScoreOf(scores, <<i, j>>)
                  IN  IF score >= best_score
                      THEN getComputerMoveLoop_Last(b, scores, k + 1, score, <<i, j>>)
                      ELSE getComputerMoveLoop_Last(b, scores, k + 1, best_score, best_move)
             ELSE getComputerMoveLoop_Last(b, scores, k + 1, best_score, best_move)

getComputerMove_LastBest(b) ==
    CHOOSE best_move \in
        {getComputerMoveLoop_Last(b, scores, 0, NegInf, None) :
             scores \in {Scores(b, "O", FALSE)}} : TRUE

\* mutant: the search is started with the wrong player to move
getComputerMove_WrongMover(b) ==
    CHOOSE best_move \in
        {getComputerMoveLoop(b, scores, 0, NegInf, None) :
             scores \in {Scores(b, "O", TRUE)}} : TRUE

getComputerMove(b) ==
    CHOOSE best_move \in
        {getComputerMoveLoop(b, scores, 0, NegInf, None) :
             scores \in {Scores(b, "O", FALSE)}} : TRUE

(***************************************************************************)
(* bestMove for the minimizing player X (spec 4.3; no counterpart in the   *)
(* source, which only ever searches for O).                                *)
(***************************************************************************)
RECURSIVE bestMoveXLoop(_, _, _, _, _)

bestMoveXLoop(b, scores, k, best_score, best_move) ==
    IF k = 9 THEN best_move
    ELSE LET i == k \div 3
             j == k % 3
         IN  IF b[i][j] = " "
             THEN LET score == ScoreOf(scores, <<i, j>>)
                  IN  IF score < best_score
                      THEN bestMoveXLoop(b, scores, k + 1, score, <<i, j>>)
                      ELSE bestMoveXLoop(b, scores, k + 1, best_score, best_move)
             ELSE bestMoveXLoop(b, scores, k + 1, best_score, best_move)

bestMoveX(b) ==
    CHOOSE best_move \in
        {bestMoveXLoop(b, scores, 0, PosInf, None) :
             scores \in {Scores(b, "X", TRUE)}} : TRUE

(***************************************************************************)
(* Part C: encodeBoard, the predictor, getComputerMove                     *)
(***************************************************************************)
encodeBoard(b) ==
    [k \in 1 .. 9 |->
        LET cell == b[(k - 1) \div 3][(k - 1) % 3]
        IN  IF cell = "X" THEN 1 ELSE IF cell = "O" THEN -1 ELSE 0]

\* self.model.predict([encoded])[0]: an external classifier; every index of
\* the bounded range is a possible answer for every encoded board
predict(encoded) == Predictions

\* Python's divmod (floor division; the remainder has the divisor's sign)
divmod(a, n) == <<a \div n, a % n>>

\* mutant: the fallback draws from all nine cells
getComputerMoveC_AnyCell(b, move_index) ==
    LET rc == divmod(move_index, 3)
    IN  IF ~validateEntryC(b, rc[1], rc[2])
        THEN {<<a[1], a[2], TRUE>> : a \in Cells}
        ELSE {<<rc[1], rc[2], FALSE>>}

\* mutant: the fallback is not reported
getComputerMoveC_Silent(b, move_index) ==
    LET rc == divmod(move_index, 3)
    IN  IF ~validateEntryC(b, rc[1], rc[2])
        THEN {<<a[1], a[2], FALSE>> : a \in available(b)}
        ELSE {<<rc[1], rc[2], FALSE>>}

\* the set of outcomes <<row, col, fallback printed>> of one call, given
\* the predictor's answer; random.choice may return any element
getComputerMoveC(b, move_index) ==
    LET rc == divmod(move_index, 3)
    IN  IF ~validateEntryC(b, rc[1], rc[2])
        THEN {<<a[1], a[2], TRUE>> : a \in available(b)}
        ELSE {<<rc[1], rc[2], FALSE>>}

(***************************************************************************)
(* End of a loop pass: classification of the board after the mark of t     *)
(* has been placed.  Yields the next turn, control point and outcome.      *)
(***************************************************************************)
Win(t) == IF t = "X" THEN "WinX" ELSE "WinO"

\* mutant: the full board is tested before the win
EndTurnA_FullFirst(b, t) ==
    IF checkFull(b) THEN [turn |-> t, pc |-> "again", result |-> "Draw"]
    ELSE IF checkWinA(b, t) THEN [turn |-> t, pc |-> "again", result |-> Win(t)]
    ELSE [turn |-> switchPlayer(t), pc |-> "loop", result |-> "InProgress"]

EndTurnA(b, t) ==
    IF checkWinA(b, t) THEN [turn |-> t, pc |-> "again", result |-> Win(t)]
    ELSE IF checkFull(b) THEN [turn |-> t, pc |-> "again", result |-> "Draw"]
    ELSE [turn |-> switchPlayer(t), pc |-> "loop", result |-> "InProgress"]

\* mutant: a line of the mover does not end the game
EndTurnB_IgnoresWin(b, t) ==
    IF checkFull(b)
    THEN IF checkWinB(b, t)
         THEN [turn |-> t, pc |-> "again", result |-> Win(t)]
         ELSE [turn |-> t, pc |-> "again", result |-> "Draw"]
    ELSE [turn |-> switchPlayer(t), pc |-> "loop", result |-> "InProgress"]

\* mutant: on a full board the result is a draw, whoever holds a line
EndTurnB_DrawOnFull(b, t) ==
    IF checkEndB(b, t)
    THEN IF checkFull(b)
         THEN [turn |-> t, pc |-> "again", result |-> "Draw"]
         ELSE [turn |-> t, pc |-> "again", result |-> Win(t)]
    ELSE [turn |-> switchPlayer(t), pc |-> "loop", result |-> "InProgress"]

EndTurnB(b, t) ==
    IF checkEndB(b, t)
    THEN IF checkWinB(b, t)
         THEN [turn |-> t, pc |-> "again", result |-> Win(t)]
         ELSE [turn |-> t, pc |-> "again", result |-> "Draw"]
    ELSE [turn |-> switchPlayer(t), pc |-> "loop", result |-> "InProgress"]

\* mutant: the loop is left after every move that does not win
EndTurnC_BreakAlways(b, t) ==
    IF checkWinC(b, t) THEN [turn |-> t, pc |-> "again", result |-> Win(t)]
    ELSE [turn |-> t, pc |-> "again", result |-> "Draw"]

EndTurnC(b, t) ==
    IF checkWinC(b, t) THEN [turn |-> t, pc |-> "again", result |-> Win(t)]
    ELSE IF checkFull(b) THEN [turn |-> t, pc |-> "again", result |-> "Draw"]
    ELSE [turn |-> switchPlayer(t), pc |-> "loop", result |-> "InProgress"]

EndTurn(v, b, t) ==
    CASE v = "A" -> EndTurnA(b, t)
      [] v = "C" -> EndTurnC(b, t)
      [] OTHER   -> EndTurnB(b, t)

\* the candidate move consumed by the last loop pass
Input(kind, row, col) == [kind |-> kind, row |-> row, col |-> col]
NoInput == Input("none", 0, 0)

(***************************************************************************)
(* Initial state: Game.__init__ followed by the call of playGame           *)
(***************************************************************************)
Fresh ==
    /\ c = Board
    /\ turn = "X"
    /\ pc = "loop"
    /\ inp = NoInput
    /\ msg = "Welcome"
    /\ result = "InProgress"
    /\ stack = <<>>

Init == variant \in Variants /\ Fresh

InitSelfPlay == variant \in MinimaxVariants /\ Fresh

\* who types the move of player t in variant v
IsHuman(v, t) == v = "A" \/ (v \in {"B", "C"} /\ t = "X")

(***************************************************************************)
(* Loop passes of a human player                                           *)
(***************************************************************************)
\* input that does not split into two integers: except branch, continue
ParseError ==
    /\ pc = "loop"
    /\ IsHuman(variant, turn)
    /\ inp' = Input("parse", 0, 0)
    /\ msg' = IF variant = "C" THEN "InvalidInput" ELSE "InvalidEntry"
    /\ UNCHANGED <<variant, c, turn, pc, result, stack>>

\* parsed, but validateEntry is false: message, continue
RejectMove ==
    /\ pc = "loop"
    /\ IsHuman(variant, turn)
    /\ \E row \in Coords, col \in Coords :
         /\ ~validateEntry(variant, c, row, col)
         /\ inp' = Input("human", row, col)
         /\ msg' = IF variant = "C" THEN "InvalidMove"
                   ELSE IF ~(0 <= row /\ row < 3 /\ 0 <= col /\ col < 3)
                        THEN "InvalidEntry"
                        ELSE "CellTaken"
    /\ UNCHANGED <<variant, c, turn, pc, result, stack>>

\* parsed and valid: place the mark, classify, switch
HumanMove ==
    /\ pc = "loop"
    /\ IsHuman(variant, turn)
    /\ msg' = "None"
    /\ \E row \in Coords, col \in Coords :
         /\ validateEntry(variant, c, row, col)
         /\ inp' = Input("human", row, col)
         /\ LET b == Place(c, row, col, turn)
                e == EndTurn(variant, b, turn)
            IN  /\ c' = b
                /\ turn' = e.turn
                /\ pc' = e.pc
                /\ result' = e.result
    /\ UNCHANGED <<variant, stack>>

(***************************************************************************)
(* Loop passes of the computer                                             *)
(***************************************************************************)
\* Part B, else branch: move = self.getComputerMove(); if move: place
MinimaxMove ==
    /\ pc = "loop"
    /\ variant \in MinimaxVariants
    /\ turn = "O"
    /\ \E move \in {getComputerMove(c)} :
         LET b == IF move # None THEN Place(c, move[1], move[2], "O") ELSE c
             e == EndTurnB(b, turn)
         IN  /\ c' = b
             /\ turn' = e.turn
             /\ pc' = e.pc
             /\ result' = e.result
             /\ inp' = IF move # None THEN Input("minimax", move[1], move[2])
                       ELSE NoInput
    /\ msg' = "None"
    /\ UNCHANGED <<variant, stack>>

\* self-play: X's move comes from minimax too
SelfPlayMove ==
    /\ pc = "loop"
    /\ variant = "M"
    /\ turn = "X"
    /\ \E move \in {bestMoveX(c)} :
         LET b == IF move # None THEN Place(c, move[1], move[2], "X") ELSE c
             e == EndTurnB(b, turn)
         IN  /\ c' = b
             /\ turn' = e.turn
             /\ pc' = e.pc
             /\ result' = e.result
             /\ inp' = IF move # None THEN Input("minimax", move[1], move[2])
                       ELSE NoInput
    /\ msg' = "None"
    /\ UNCHANGED <<variant, stack>>

\* Part C, else branch: row, col = self.getComputerMove(); place
ModelMove ==
    /\ pc = "loop"
    /\ variant = "C"
    /\ turn = "O"
    /\ \E move_index \in predict(encodeBoard(c)) :
         \E m \in getComputerMoveC(c, move_index) :
           LET b == Place(c, m[1], m[2], "O")
               e == EndTurnC(b, turn)
               rc == divmod(move_index, 3)
           IN  /\ c' = b
               /\ turn' = e.turn
               /\ pc' = e.pc
               /\ result' = e.result
               /\ inp' = Input("model", rc[1], rc[2])
               /\ msg' = IF m[3] THEN "Fallback" ELSE "None"
    /\ UNCHANGED <<variant, stack>>

(***************************************************************************)
(* Replay prompt: 'y' builds a fresh Board, gives X the turn and calls     *)
(* playGame again; any other answer ends the program.                      *)
(***************************************************************************)
\* mutant: the turn is not given back to X
PlayAgain_KeepsTurn ==
    /\ pc = "again"
    /\ c' = Board
    /\ pc' = "loop"
    /\ inp' = Input("yes", 0, 0)
    /\ msg' = "Welcome"
    /\ result' = "InProgress"
    /\ UNCHANGED <<variant, turn, stack>>

PlayAgain ==
    /\ pc = "again"
    /\ c' = Board
    /\ turn' = "X"
    /\ pc' = "loop"
    /\ inp' = Input("yes", 0, 0)
    /\ msg' = "Welcome"
    /\ result' = "InProgress"
    /\ UNCHANGED <<variant, stack>>

Quit ==
    /\ pc = "again"
    /\ pc' = "done"
    /\ inp' = Input("no", 0, 0)
    /\ msg' = "Thanks"
    /\ UNCHANGED <<variant, c, turn, result, stack>>

Next ==
    \/ ParseError
    \/ RejectMove
    \/ HumanMove
    \/ MinimaxMove
    \/ ModelMove
    \/ PlayAgain
    \/ Quit

Spec == Init /\ [][Next]_vars

NextSelfPlay ==
    \/ ParseError
    \/ RejectMove
    \/ HumanMove
    \/ MinimaxMove
    \/ SelfPlayMove
    \/ PlayAgain
    \/ Quit

\* a loop pass of the computer waits for no input: once the loop is at the
\* computer's turn the search runs and the mark is placed
SelfPlaySpec ==
    InitSelfPlay /\ [][NextSelfPlay]_vars /\ WF_vars(MinimaxMove \/ SelfPlayMove)

(***************************************************************************)
(* The search of Part B, call by call.  getComputerMove hands self.board.c *)
(* itself to minimax, and minimax hands board_state on, so every call      *)
(* writes its tentative marks into the engine's own board c.  A frame      *)
(* holds the locals of one call: the loop position k (cell i, j =          *)
(* divmod(k, 3)), best_score and, for getComputerMove, best_move.  The     *)
(* field called_on records the board at the call; no step reads it, only   *)
(* the properties do.                                                      *)
(***************************************************************************)
Frame(fn, is_maximizing, b) ==
    [fn |-> fn, is_maximizing |-> is_maximizing, k |-> 0,
     best_score |-> IF is_maximizing THEN NegInf ELSE PosInf,
     best_move |-> None, called_on |-> b]

Top == stack[Len(stack)]

\* the mark a call places: 'O' in getComputerMove and in a maximizing
\* minimax, 'X' in a minimizing one
Mark(f) == IF f.is_maximizing THEN "O" ELSE "X"

\* minimax returns before its loops on a won or full board
Decided(b) ==
    \/ checkWinState(b, "O")
    \/ checkWinState(b, "X")
    \/ \A row \in Idx : \A col \in Idx : b[row][col] # " "

TerminalScore(b) ==
    IF checkWinState(b, "O") THEN 1
    ELSE IF checkWinState(b, "X") THEN -1
    ELSE 0

\* mutant: the loops stop at every cell, empty or not
NextCell_AnyCell(b, k) == IF k <= 8 THEN k ELSE 9

\* for i / for j / if board_state[i][j] == ' ': the cell the loops stop at
\* next, from position k on; 9 when the loops are exhausted
NextCell(b, k) ==
    LET stops == {n \in k .. 8 : b[n \div 3][n % 3] = " "}
    IN  IF stops = {} THEN 9 ELSE Min(stops)

\* mutant: the tentative mark is left on the board
Unmark_Forgotten(b, k) == b

\* board_state[i][j] = ' ' after the recursive call
Unmark(b, k) == Place(b, k \div 3, k % 3, " ")

\* a call of minimax is about to return
Returning(f, b) == f.fn = "minimax" /\ (Decided(b) \/ NextCell(b, f.k) = 9)

ReturnValue(f, b) == IF Decided(b) THEN TerminalScore(b) ELSE f.best_score

\* mutant: the loop position is not advanced
Resume_SameCell(g, score) == g

\* the caller g takes the score of the call it made for cell k
Resume(g, score) ==
    IF g.fn = "getComputerMove"
    THEN IF score > g.best_score
         THEN [g EXCEPT !.k = g.k + 1, !.best_score = score,
                        !.best_move = <<g.k \div 3, g.k % 3>>]
         ELSE [g EXCEPT !.k = g.k + 1]
    ELSE [g EXCEPT !.k = g.k + 1,
                   !.best_score = IF g.is_maximizing
                                  THEN Max({g.best_score, score})
                                  ELSE Min({g.best_score, score})]

\* else branch of playGame: move = self.getComputerMove() is entered
StartSearch ==
    /\ pc = "loop"
    /\ variant \in MinimaxVariants
    /\ turn = "O"
    /\ Cardinality(available(c)) <= MaxSearchCells
    /\ stack' = <<Frame("getComputerMove", TRUE, c)>>
    /\ pc' = "search"
    /\ UNCHANGED <<variant, c, turn, inp, msg, result>>

\* the loops of the running call reach an empty cell: mark it on the board
\* and call minimax for the other player
Descend ==
    /\ pc = "search"
    /\ ~Returning(Top, c)
    /\ \E n \in {NextCell(c, Top.k)} :
         /\ n < 9
         /\ \E b \in {Place(c, n \div 3, n % 3, Mark(Top))} :
              /\ c' = b
              /\ stack' = Append([stack EXCEPT ![Len(stack)].k = n],
                                 Frame("minimax", ~Top.is_maximizing, b))
    /\ UNCHANGED <<variant, turn, pc, inp, msg, result>>

\* the running call of minimax returns its score: the caller clears the
\* cell it marked, updates its best score and goes on with the next cell
Return ==
    /\ pc = "search"
    /\ Len(stack) > 1
    /\ Returning(Top, c)
    /\ \E g \in {stack[Len(stack) - 1]} :
         /\ c' = Unmark(c, g.k)
         /\ stack' = Append(SubSeq(stack, 1, Len(stack) - 2),
                            Resume(g, ReturnValue(Top, c)))
    /\ UNCHANGED <<variant, turn, pc, inp, msg, result>>

\* getComputerMove returns best_move; if move: place it; then classify
FinishSearch ==
    /\ pc = "search"
    /\ Len(stack) = 1
    /\ NextCell(c, Top.k) = 9
    /\ \E move \in {Top.best_move} :
         LET b == IF move # None THEN Place(c, move[1], move[2], "O") ELSE c
             e == EndTurnB(b, turn)
         IN  /\ c' = b
             /\ turn' = e.turn
             /\ pc' = e.pc
             /\ result' = e.result
             /\ inp' = IF move # None THEN Input("minimax", move[1], move[2])
                       ELSE NoInput
    /\ msg' = "None"
    /\ stack' = <<>>
    /\ UNCHANGED variant

\* the computer's pass in one step, on the boards whose search is not
\* unfolded
DeepMinimaxMove ==
    /\ Cardinality(available(c)) > MaxSearchCells
    /\ MinimaxMove

ComputerStep ==
    \/ DeepMinimaxMove
    \/ StartSearch
    \/ Descend
    \/ Return
    \/ FinishSearch

NextSearch ==
    \/ ParseError
    \/ RejectMove
    \/ HumanMove
    \/ DeepMinimaxMove
    \/ StartSearch
    \/ Descend
    \/ Return
    \/ FinishSearch
    \/ PlayAgain
    \/ Quit

\* the game against minimax
InitSearch == variant = "B" /\ Fresh

SearchSpec == InitSearch /\ [][NextSearch]_vars

\* the computer's pass waits for nothing; that the human eventually types a
\* valid move is the assumption under which a game is said to end
FairSearchSpec ==
    SearchSpec /\ WF_vars(HumanMove) /\ WF_vars(ComputerStep)

(***************************************************************************)
(* Vocabulary of the properties, stated on the board alone and             *)
(* independently of the engine's own checks.                               *)
(***************************************************************************)
Lines ==
    {{<<0, 0>>, <<0, 1>>, <<0, 2>>}, {<<1, 0>>, <<1, 1>>, <<1, 2>>},
     {<<2, 0>>, <<2, 1>>, <<2, 2>>}, {<<0, 0>>, <<1, 0>>, <<2, 0>>},
     {<<0, 1>>, <<1, 1>>, <<2, 1>>}, {<<0, 2>>, <<1, 2>>, <<2, 2>>},
     {<<0, 0>>, <<1, 1>>, <<2, 2>>}, {<<0, 2>>, <<1, 1>>, <<2, 0>>}}

At(b, rc) == b[rc[1]][rc[2]]
HasLine(b, p) == \E line \in Lines : \A rc \in line : At(b, rc) = p
EmptyCells(b) == {rc \in Cells : At(b, rc) = " "}
Full(b) == EmptyCells(b) = {}
Count(b, mark) == Cardinality({rc \in Cells : At(b, rc) = mark})
Other(p) == IF p = "X" THEN "O" ELSE "X"
WinOf(p) == IF p = "X" THEN "WinX" ELSE "WinO"
InRange(row, col) == row \in Idx /\ col \in Idx
IsValidMove(b, row, col) == InRange(row, col) /\ b[row][col] = " "

\* the board after the given cells are marked in turn, starting with t
RECURSIVE PlayMoves(_, _, _)
PlayMoves(b, moves, t) ==
    IF moves = <<>> THEN b
    ELSE PlayMoves(Place(b, Head(moves)[1], Head(moves)[2], t),
                   Tail(moves), Other(t))

WinScenarioBoard ==
    PlayMoves(Board, <<<<0, 0>>, <<1, 1>>, <<0, 1>>, <<2, 2>>, <<0, 2>>>>, "X")
DrawScenarioBoard ==
    PlayMoves(Board, <<<<0, 0>>, <<0, 1>>, <<0, 2>>, <<1, 1>>, <<1, 0>>,
                       <<1, 2>>, <<2, 1>>, <<2, 0>>, <<2, 2>>>>, "X")

\* a loop pass that placed a mark
Placed == pc = "loop" /\ c' # c

(***************************************************************************)
(* C1: after the active player p places a mark on a valid cell, the pass   *)
(* ends the game as Win(p) if p holds a line (also on a full board), else  *)
(* as Draw if no cell is empty, else hands the turn to the other player;   *)
(* the two scenario boards end as Win(X) and as Draw.                      *)
(***************************************************************************)
C1_StepOrder ==
    Placed =>
      /\ \E rc \in EmptyCells(c) : c' = Place(c, rc[1], rc[2], turn)
      /\ IF HasLine(c', turn)
         THEN pc' = "again" /\ result' = WinOf(turn) /\ turn' = turn
         ELSE IF Full(c')
              THEN pc' = "again" /\ result' = "Draw" /\ turn' = turn
              ELSE pc' = "loop" /\ result' = "InProgress" /\ turn' = Other(turn)

C1_Scenarios ==
    /\ c = WinScenarioBoard => pc # "loop" /\ result = "WinX"
    /\ c = DrawScenarioBoard => pc # "loop" /\ result = "Draw"

C1_TurnLoopClassifies == [][C1_StepOrder]_vars /\ []C1_Scenarios

C1_Witness == variant = "A" /\ c = DrawScenarioBoard /\ pc = "again"

(***************************************************************************)
(* C2: every cell holds one of {empty, X, O}; #X - #O is 0 or 1.           *)
(* As claimed: the difference is 0 exactly when X is about to move and the *)
(* game is in progress.                                                    *)
(***************************************************************************)
Diff == Count(c, "X") - Count(c, "O")

CellsWellFormed == \A rc \in Cells : At(c, rc) \in Cell

C2_DiffZeroIffXToMove ==
    /\ CellsWellFormed
    /\ Diff \in {0, 1}
    /\ Diff = 0 <=> (turn = "X" /\ pc = "loop")

(***************************************************************************)
(* C2 (amended): every cell holds one of {empty, X, O}; #X - #O is 0 or 1; *)
(* it is 0 exactly when X is about to move in a game in progress or the    *)
(* game has ended in Win(O).                                               *)
(***************************************************************************)
C2_DiffZeroOrOne ==
    /\ CellsWellFormed
    /\ Diff \in {0, 1}
    /\ Diff = 0 <=> ((turn = "X" /\ pc = "loop") \/ result = "WinO")

C2_Witness == variant = "B" /\ result = "WinO" /\ Diff = 0 /\ pc = "again"

(***************************************************************************)
(* C3: validateEntry(row, col) is true exactly when both coordinates are   *)
(* in 0..2 and the cell is empty, in each variant, for every candidate     *)
(* pair (negative and too large values included).                          *)
(***************************************************************************)
C3_ValidateEntry ==
    \A row \in Coords, col \in Coords :
        /\ validateEntryA(c, row, col) <=> IsValidMove(c, row, col)
        /\ validateEntryB(c, row, col) <=> IsValidMove(c, row, col)
        /\ validateEntryC(c, row, col) <=> IsValidMove(c, row, col)

C3_Witness ==
    /\ inp = Input("human", -1, 1)
    /\ msg = "InvalidEntry"
    /\ c[1][1] # " "
    /\ c[0][0] = " "

(***************************************************************************)
(* C4: a loop pass whose human candidate is rejected (unparseable, out of  *)
(* range, or an occupied cell) changes no cell, keeps the active player,   *)
(* does not end the game and stays in the loop, asking the same player.    *)
(***************************************************************************)
RejectedInput(i, b) ==
    \/ i.kind = "parse"
    \/ i.kind = "human" /\ ~IsValidMove(b, i.row, i.col)

RejectMessages == {"InvalidEntry", "CellTaken", "InvalidInput", "InvalidMove"}

C4_StepRejected ==
    (pc = "loop" /\ RejectedInput(inp', c)) =>
        /\ c' = c
        /\ turn' = turn
        /\ pc' = "loop"
        /\ result' = "InProgress"
        /\ msg' \in RejectMessages

C4_RejectedMoveKeepsState == [][C4_StepRejected]_vars

C4_Witness ==
    /\ variant = "B"
    /\ msg = "CellTaken"
    /\ inp.kind = "human"
    /\ c[inp.row][inp.col] = "O"
    /\ pc = "loop"
    /\ turn = "X"

(***************************************************************************)
(* C5: in self-play (both players choose by minimax) the game always       *)
(* terminates, and it terminates in Draw.                                  *)
(***************************************************************************)
C5_SelfPlayDraws ==
    /\ [](variant = "M" /\ pc # "loop" => result = "Draw" /\ Full(c))
    /\ (variant = "M" /\ pc = "loop") ~> (pc = "again" /\ result = "Draw")

C5_Witness ==
    variant = "M" /\ pc = "again" /\ result = "Draw" /\ Full(c) /\ inp.kind = "minimax"

(***************************************************************************)
(* Boards on which getComputerMove is examined as a function: those on     *)
(* which the minimax variants call it, and every board reached by an       *)
(* accepted move of X in any variant that has at most SmallSearch empty    *)
(* cells.                                                                  *)
(***************************************************************************)
OToMove == pc = "loop" /\ turn = "O"

SearchedBoard ==
    /\ OToMove
    /\ \/ variant \in MinimaxVariants
       \/ msg = "None" /\ Cardinality(EmptyCells(c)) <= SmallSearch

RowMajor(rc) == 3 * rc[1] + rc[2]

\* minimax value for O of marking the empty cell rc
ValueOf(b, rc) == minimax(Place(b, rc[1], rc[2], "O"), FALSE)

(***************************************************************************)
(* C6: on every board with an empty cell getComputerMove returns the empty *)
(* cell of maximum minimax value for O that comes first in row-major       *)
(* order.                                                                  *)
(***************************************************************************)
C6_RowMajorFirstBest ==
    SearchedBoard =>
        \E vals \in {[rc \in EmptyCells(c) |-> ValueOf(c, rc)]} :
        \E move \in {getComputerMove(c)} :
            /\ move \in EmptyCells(c)
            /\ \A rc \in EmptyCells(c) :
                  /\ vals[rc] <= vals[move]
                  /\ vals[rc] = vals[move] => RowMajor(move) <= RowMajor(rc)

\* after X takes the centre the four corners tie at 0 and the edges score
\* -1: the first corner in row-major order is played
C6_Witness ==
    /\ variant = "B"
    /\ inp = Input("minimax", 0, 0)
    /\ c = PlayMoves(Board, <<<<1, 1>>, <<0, 0>>>>, "X")

(***************************************************************************)
(* C7.  X threatens on b: some empty cell completes a line of X.  A move   *)
(* of O prevents X's immediate win if it wins the game for O at once or    *)
(* leaves X no such cell.                                                  *)
(* As claimed: on every board with O to move on which X threatens, if some *)
(* move of O prevents X's immediate win then getComputerMove returns such  *)
(* a move.                                                                 *)
(***************************************************************************)
Threatens(b, p) ==
    \E rc \in EmptyCells(b) : HasLine(Place(b, rc[1], rc[2], p), p)

Prevents(b, rc) ==
    LET after == Place(b, rc[1], rc[2], "O")
    IN  HasLine(after, "O") \/ ~Threatens(after, "X")

Blocks(b) ==
    (Threatens(b, "X") /\ \E rc \in EmptyCells(b) : Prevents(b, rc)) =>
        \E move \in {getComputerMove(b)} :
            move \in EmptyCells(b) /\ Prevents(b, move)

C7_BlocksOnEveryBoard == SearchedBoard => Blocks(c)

(***************************************************************************)
(* C7 (amended): on every board of the human-vs-minimax game (all earlier  *)
(* marks of O chosen by getComputerMove) with O to move on which X         *)
(* threatens, if some move of O prevents X's immediate win then            *)
(* getComputerMove returns such a move; these boards include the ones      *)
(* after the opening X:(0,0), O:(1,1).                                     *)
(***************************************************************************)
C7_BlocksInMinimaxGame ==
    /\ (OToMove /\ variant \in MinimaxVariants) => Blocks(c)
    /\ (variant = "B" /\ c = Place(Board, 0, 0, "X")) =>
           getComputerMove(c) = <<1, 1>>

C7_Witness ==
    /\ variant = "B"
    /\ inp = Input("minimax", 0, 2)
    /\ c = PlayMoves(Board, <<<<0, 0>>, <<1, 1>>, <<0, 1>>, <<0, 2>>>>, "X")

(***************************************************************************)
(* C8: whenever the loop asks O's policy for a move, the minimax policy    *)
(* returns a cell (not None) and the model policy returns a cell, for      *)
(* every predictor output, on which validateEntry is true; no pass of the  *)
(* loop overwrites an occupied cell.                                       *)
(***************************************************************************)
C8_PolicyMoveValid ==
    /\ (OToMove /\ variant = "B") =>
          \E move \in {getComputerMove(c)} :
              move # None /\ validateEntryB(c, move[1], move[2])
    /\ (OToMove /\ variant = "C") =>
          \A move_index \in Predictions :
              /\ getComputerMoveC(c, move_index) # {}
              /\ \A m \in getComputerMoveC(c, move_index) :
                     validateEntryC(c, m[1], m[2])

C8_StepKeepsMarks ==
    pc = "loop" => \A rc \in Cells : At(c, rc) # " " => At(c', rc) = At(c, rc)

C8_ComputerMoveValid == []C8_PolicyMoveValid /\ [][C8_StepKeepsMarks]_vars

C8_Witness ==
    /\ variant = "B"
    /\ inp.kind = "minimax"
    /\ c[inp.row][inp.col] = "O"
    /\ Count(c, "O") = 3

(***************************************************************************)
(* C9: in the model variant, if the predicted cell divmod(index, 3) is out *)
(* of range or occupied, O's mark goes to a different cell that was empty  *)
(* and the fallback is reported; if the predicted cell is empty and in     *)
(* range, O's mark goes to exactly that cell and no fallback is reported.  *)
(***************************************************************************)
C9_StepModelMove ==
    (variant = "C" /\ OToMove /\ inp'.kind = "model") =>
        \E move_index \in Predictions :
            LET row == move_index \div 3
                col == move_index % 3
            IN  /\ inp' = Input("model", row, col)
                /\ IF IsValidMove(c, row, col)
                   THEN c' = Place(c, row, col, "O") /\ msg' = "None"
                   ELSE /\ msg' = "Fallback"
                        /\ \E rc \in EmptyCells(c) :
                              /\ rc # <<row, col>>
                              /\ c' = Place(c, rc[1], rc[2], "O")

C9_StepFromModel ==
    (variant = "C" /\ OToMove) => inp'.kind = "model"

C9_ModelFallback == [][C9_StepModelMove /\ C9_StepFromModel]_vars

\* the predictor answered index 0 while cell (0,0) was occupied
C9_Witness ==
    /\ variant = "C"
    /\ msg = "Fallback"
    /\ inp = Input("model", 0, 0)
    /\ c[0][0] = "X"
    /\ c[1][1] = "O"

(***************************************************************************)
(* C10: once a game has ended no mark is placed and the turn is not        *)
(* switched; the loop is left only with the last mover holding a line or   *)
(* the board full; the only step from an ended game that changes the board *)
(* is replay, and nothing follows the refusal of a replay.                 *)
(***************************************************************************)
C10_StepAfterEnd ==
    /\ pc = "again" =>
          \/ pc' = "loop" /\ c' = Board /\ turn' = "X" /\ result' = "InProgress"
          \/ pc' = "done" /\ c' = c /\ turn' = turn /\ result' = result
    /\ pc # "done"
    /\ (pc = "loop" /\ pc' # "loop") =>
          /\ pc' = "again"
          /\ c' # c
          /\ HasLine(c', turn) \/ Full(c')

C10_Ended ==
    /\ pc # "loop" =>
          /\ HasLine(c, turn) \/ Full(c)
          /\ result \in {"WinX", "WinO", "Draw"}
    /\ pc = "loop" => result = "InProgress"

C10_TerminalAbsorbing == [][C10_StepAfterEnd]_vars /\ []C10_Ended

C10_Witness == pc = "done" /\ result = "WinO" /\ msg = "Thanks"

(***************************************************************************)
(* C11: replay accepted after Win(X), Win(O) or Draw gives the initial     *)
(* state, all nine cells empty and X to move, whatever board and last      *)
(* mover the ended game had; a refused replay leaves the board unchanged.  *)
(***************************************************************************)
C11_StepReplay ==
    pc = "again" =>
        \/ /\ inp' = Input("yes", 0, 0)
           /\ \A rc \in Cells : At(c', rc) = " "
           /\ turn' = "X"
           /\ pc' = "loop"
           /\ result' = "InProgress"
           /\ variant' = variant
        \/ /\ inp' = Input("no", 0, 0)
           /\ c' = c
           /\ pc' = "done"

C11_ReplayResets == [][C11_StepReplay]_vars

C11_Witness ==
    /\ variant = "C"
    /\ inp = Input("yes", 0, 0)
    /\ pc = "loop"
    /\ turn = "X"
    /\ c = Board

(***************************************************************************)
(* C13: in every reachable state exactly one of InProgress, Win(X),        *)
(* Win(O), Draw holds, and it is the engine's result; X and O never both   *)
(* hold a line; a full board on which the last mover holds a line is a     *)
(* win, not a draw.                                                        *)
(***************************************************************************)
IsWin(b, p) == HasLine(b, p)
IsDraw(b) == Full(b) /\ ~HasLine(b, "X") /\ ~HasLine(b, "O")
IsInProgress(b) == ~Full(b) /\ ~HasLine(b, "X") /\ ~HasLine(b, "O")

C13_OneResult ==
    /\ ~(HasLine(c, "X") /\ HasLine(c, "O"))
    /\ Cardinality({r \in {"InProgress", "WinX", "WinO", "Draw"} :
                       \/ r = "InProgress" /\ IsInProgress(c)
                       \/ r = "WinX" /\ IsWin(c, "X")
                       \/ r = "WinO" /\ IsWin(c, "O")
                       \/ r = "Draw" /\ IsDraw(c)}) = 1
    /\ result = "InProgress" <=> IsInProgress(c)
    /\ result = "WinX" <=> IsWin(c, "X")
    /\ result = "WinO" <=> IsWin(c, "O")
    /\ result = "Draw" <=> IsDraw(c)
    /\ (Full(c) /\ HasLine(c, turn)) => result = WinOf(turn)

C13_Witness == variant = "A" /\ Full(c) /\ HasLine(c, "X") /\ result = "WinX"

(***************************************************************************)
(* C16: in the human-vs-minimax variant X never holds a line; every ended  *)
(* game is Win(O) or Draw.                                                 *)
(***************************************************************************)
C16_ComputerNeverLoses ==
    variant = "B" =>
        /\ ~HasLine(c, "X")
        /\ result # "WinX"
        /\ pc # "loop" => result \in {"WinO", "Draw"}

C16_Witness ==
    variant = "B" /\ pc = "again" /\ result = "Draw" /\ Full(c)

(***************************************************************************)
(* C18: where the loop calls checkWin (mark of the active player placed,   *)
(* turn not yet switched) checkWin, which looks at the lines of the active *)
(* player only, is true exactly when X or O holds a line; the other player *)
(* holds none.  checkWinState for the active player agrees.                *)
(***************************************************************************)
C18_StepMoverOnly ==
    Placed =>
        /\ checkWin(variant, c', turn) <=> (HasLine(c', "X") \/ HasLine(c', "O"))
        /\ checkWinState(c', turn) <=> checkWin(variant, c', turn)
        /\ ~HasLine(c', Other(turn))
        /\ ~checkWinState(c', Other(turn))

C18_MoverCheckSuffices == [][C18_StepMoverOnly]_vars

\* O completed the diagonal (0,2),(1,1),(2,0) against the human
C18_Witness ==
    /\ variant = "C"
    /\ result = "WinO"
    /\ \A i \in Idx : c[i][2 - i] = "O"
    /\ inp.kind = "model"

(***************************************************************************)
(* C19: the three engines are one state machine up to the source of O's    *)
(* moves: on every board and active player any of them reaches (a pass     *)
(* that rejects leaves both unchanged, so the states after an accepted     *)
(* move, a replay or the start carry all of them), they accept and reject  *)
(* the same candidates and, for every accepted one, produce the same next  *)
(* active player, the same continuation and the same result; checkEnd then *)
(* checkWin classifies as checkWin else checkFull does.                    *)
(***************************************************************************)
C19_SameMachine ==
    (pc = "loop" /\ msg \in {"None", "Welcome", "Fallback"}) =>
        \A row \in Coords, col \in Coords :
            /\ validateEntryA(c, row, col) = validateEntryB(c, row, col)
            /\ validateEntryB(c, row, col) = validateEntryC(c, row, col)
            /\ validateEntryA(c, row, col) =>
                  \E b \in {Place(c, row, col, turn)} :
                      /\ EndTurnA(b, turn) = EndTurnB(b, turn)
                      /\ EndTurnB(b, turn) = EndTurnC(b, turn)
                      /\ (checkEndB(b, turn) /\ checkWinB(b, turn)) <=> checkWinA(b, turn)
                      /\ (checkEndB(b, turn) /\ ~checkWinB(b, turn)) <=>
                             (~checkWinC(b, turn) /\ checkFull(b))

\* a ninth mark that completes a line: a win in every variant
C19_Witness ==
    /\ variant = "C"
    /\ Full(c)
    /\ result = "WinX"
    /\ EndTurnB(c, "X") = EndTurnA(c, "X")
    /\ EndTurnB(c, "X").result = "WinX"

(***************************************************************************)
(* C14: minimax(board, is_maximizing) is the game-theoretic value for O of *)
(* the board with the indicated player to move: +1 / -1 on a line of O /   *)
(* of X, 0 on a full board without line, otherwise the maximum (O to move) *)
(* or minimum (X to move) over the empty cells of the value after the      *)
(* mover plays there; it lies in {-1, 0, 1}; the empty board with X to     *)
(* move has value 0.                                                       *)
(***************************************************************************)
RECURSIVE GameValue(_, _)

\* value for O under best play of both, mover to move
GameValue(b, mover) ==
    IF HasLine(b, "O") THEN 1
    ELSE IF HasLine(b, "X") THEN -1
    ELSE IF Full(b) THEN 0
    ELSE CHOOSE v \in
           {IF mover = "O"
            THEN (IF 1 \in vals THEN 1 ELSE IF 0 \in vals THEN 0 ELSE -1)
            ELSE (IF -1 \in vals THEN -1 ELSE IF 0 \in vals THEN 0 ELSE 1) :
              vals \in {{GameValue(Place(b, rc[1], rc[2], mover), Other(mover)) :
                            rc \in EmptyCells(b)}}} : TRUE

\* boards on which the value is compared: reached by an accepted move, at
\* most SmallSearch cells empty
SmallBoard ==
    pc = "loop" /\ msg = "None" /\ Cardinality(EmptyCells(c)) <= SmallSearch

C14_MinimaxIsGameValue ==
    /\ SmallBoard =>
          \E v \in {minimax(c, turn = "O")} :
              /\ v \in {-1, 0, 1}
              /\ v = GameValue(c, turn)
              /\ \A rc \in EmptyCells(c) :
                    \E w \in {minimax(Place(c, rc[1], rc[2], turn), turn # "O")} :
                        IF turn = "O" THEN w <= v ELSE v <= w
              /\ \E rc \in EmptyCells(c) :
                    minimax(Place(c, rc[1], rc[2], turn), turn # "O") = v
    /\ pc = "again" =>
          \A is_maximizing \in BOOLEAN :
              minimax(c, is_maximizing) =
                  (IF HasLine(c, "O") THEN 1 ELSE IF HasLine(c, "X") THEN -1 ELSE 0)
    /\ (variant = "B" /\ inp = NoInput) => minimax(c, FALSE) = 0

\* X to move with three cells left and a forced win of X
C14_Witness ==
    /\ SmallBoard
    /\ turn = "X"
    /\ Cardinality(EmptyCells(c)) = 3
    /\ ~Threatens(c, "X")
    /\ minimax(c, FALSE) = -1

(***************************************************************************)
(* C15: backtracking restores the board.  Every call of minimax and every  *)
(* call of getComputerMove undoes each mark it places before it tries the  *)
(* next cell: whenever a call is running its own loops, and when it        *)
(* returns, the board is cell-for-cell the board at its call; the caller   *)
(* then clears its own mark and is back on the board of its own call; turn *)
(* stays 'O' all through the search.                                       *)
(***************************************************************************)
Searching == pc = "search"

\* a step on which the running call returns to its caller
CallReturns == Searching /\ Len(stack') < Len(stack)

C15_StepReturn ==
    CallReturns =>
        /\ c = Top.called_on
        /\ stack' # <<>> => /\ c' = stack'[Len(stack')].called_on
                            /\ turn' = turn

C15_BacktrackingRestores ==
    /\ [](Searching => (c = Top.called_on /\ turn = "O"))
    /\ [][C15_StepReturn]_vars

\* a call two levels below getComputerMove that has got a score back from a
\* call of its own and is about to try its next cell
C15_Witness ==
    /\ Searching
    /\ Len(stack) = 3
    /\ Top.k > 0
    /\ Top.best_score \in {-1, 0, 1}
    /\ NextCell(c, Top.k) < 9
    /\ c = Top.called_on

(***************************************************************************)
(* C12, as stated: the search works on a copy, so at every step of the     *)
(* search started by getComputerMove the engine's own board equals the     *)
(* board at the moment the search began.                                   *)
(***************************************************************************)
SearchStart == stack[1].called_on

Changed(b1, b2) == {rc \in Cells : At(b1, rc) # At(b2, rc)}

\* the mark placed for the call in frame n (n > 1) is the only difference
\* between the boards of frame n - 1 and frame n
TentativeMark(n) ==
    \E rc \in EmptyCells(stack[n - 1].called_on) :
        stack[n].called_on =
            Place(stack[n - 1].called_on, rc[1], rc[2], Mark(stack[n - 1]))

C12_StateInPlace ==
    Searching =>
        /\ \A rc \in Cells :
              At(SearchStart, rc) # " " => At(c, rc) = At(SearchStart, rc)
        /\ Cardinality(Changed(c, SearchStart)) = Len(stack) - 1
        /\ \A n \in 2 .. Len(stack) : TentativeMark(n)

C12_StepLeave == (Searching /\ ~Searching') => c = SearchStart

InGame == pc \in {"loop", "search"}

\* the board as the last accepted move left it
Accepted == IF Searching THEN SearchStart ELSE c

Marks(b) == Cardinality(Cells \ EmptyCells(b))

\* a loop pass ends with a move accepted
AcceptedMove ==
    /\ InGame
    /\ pc' \in {"loop", "again"}
    /\ msg' \in {"None", "Fallback"}

C17_StepFillsOne ==
    /\ AcceptedMove =>
          \E rc \in EmptyCells(Accepted) :
              c' = Place(Accepted, rc[1], rc[2], turn)
    /\ (pc = "loop" /\ pc' = "loop" /\ ~AcceptedMove) => c' = c

C17_StepNoCellEmptied ==
    InGame => \A rc \in Cells : At(c, rc) # " " => At(c', rc) # " "

C17_Counts ==
    /\ pc = "again" =>
          /\ result \in {"WinX", "WinO", "Draw"}
          /\ Marks(c) \in 5 .. 9
    /\ InGame => (result = "InProgress" /\ Marks(Accepted) <= 8)

\* one nested call for each tentative mark, each on a cell empty at the
\* start of the search
C17_Depth ==
    Searching =>
        /\ Len(stack) - 1 <= Cardinality(EmptyCells(SearchStart))
        /\ Len(stack) - 1 + Cardinality(EmptyCells(c)) =
               Cardinality(EmptyCells(SearchStart))

\* a search in progress is part of a game in progress: from every step of
\* a search the replay prompt is reached, so the search has returned
C17_GameEnds == InGame ~> pc = "again"

C17_StepAcceptedStay ==
    InGame => \A rc \in Cells :
                  At(Accepted, rc) # " " => At(c', rc) = At(Accepted, rc)

====
